---- MODULE Spec2Model ----
(***************************************************************************)
(* State-machine model of xturing/config/__init__.py (device and default   *)
(* precision selection at import time) and of                               *)
(* xturing/trainers/lightning_trainer.py (TuringLightningModule and         *)
(* LightningTrainer).  The pytorch_lightning Trainer is the environment:    *)
(* during fit() it calls the module's hooks (configure_optimizers,          *)
(* training_step, validation_step, on_save_checkpoint).                     *)
(***************************************************************************)
EXTENDS Integers, Sequences, FiniteSets, TLC

\* ---------------------------------------------------------------- bounds
MaxSteps == 2        \* engine step calls (training + validation) explored
MaxSaves == 1        \* checkpoint-save hook firings explored
MaxExtra == 1        \* length of the caller's extra_callbacks list

\* ------------------------------------------------------- input domains
Engines == {"plain_engine", "peft_engine"}
DatasetLens == {100, 101}
\* An Optional value is a set with at most one element: {} stands for None.
None == {}
Some(x) == {x}
Value(opt) == CHOOSE x \in opt : TRUE
TrainingTimes == {None, Some(90000)}
OptimizerNames == {"adamw", "adam", "cpu_adam", "sgd"}
LoraTypes == {8, 16}
LossValues == {1, 2}
LearningRates == {10}     \* in units of 1e-4; the default 1e-3
ExtraKinds == {"EarlyStopping"}
SecondsPerDay == 86400

\* ------------------------------------------------------------ callbacks
\* Every callback object is a record of the same shape.
Callback(k, d, s, p, e) ==
    [kind |-> k, days |-> d, seconds |-> s, dirpath |-> p, save_on_train_epoch_end |-> e]

LearningRateFinder == Callback("LearningRateFinder", 0, 0, "", FALSE)

\* datetime.timedelta(seconds=x) normalises to whole days and a remainder.
timedelta(secs) == [days |-> secs \div SecondsPerDay, seconds |-> secs % SecondsPerDay]

total_seconds(cb) == cb.days * SecondsPerDay + cb.seconds

Timer(duration) == Callback("Timer", duration.days, duration.seconds, "", FALSE)

ModelCheckpoint(dirpath, onEpochEnd) == Callback("ModelCheckpoint", 0, 0, dirpath, onEpochEnd)

ExtraCallback(k) == Callback(k, 0, 0, "", FALSE)

RECURSIVE SeqsUpTo(_, _)
SeqsUpTo(S, n) ==
    IF n = 0 THEN {<<>>}
    ELSE LET shorter == SeqsUpTo(S, n - 1)
         IN  shorter \cup {Append(q, x) : q \in shorter, x \in S}

ExtraCallbackLists == SeqsUpTo({ExtraCallback(k) : k \in ExtraKinds}, MaxExtra)

\* --------------------------------------------------------------- state
VARIABLES
    pc,               \* position of the single thread of control
    cuda_available,   \* torch.cuda.is_available()
    mps_available,    \* torch.backends.mps.is_available()
    DEFAULT_DEVICE,   \* xturing.config.DEFAULT_DEVICE.type
    DEFAULT_DTYPE,    \* xturing.config.DEFAULT_DTYPE
    warnings,         \* number of CPU warnings printed
    dirExists,        \* whether the directory saved_model exists
    args,             \* arguments of the LightningTrainer(...) call
    lightning_model,  \* LightningTrainer.lightning_model (fields of the module)
    losses,           \* TuringLightningModule.losses
    val_losses,       \* TuringLightningModule.val_losses
    trainingMode,     \* model_engine.model.training
    ctorCalls,        \* calls made on collaborators while constructing, in order
    trainer,          \* LightningTrainer.trainer (arguments given to Trainer)
    configured,       \* value returned by configure_optimizers
    raised,           \* exception that ended the run, "none" if there is none
    engineLog,        \* calls answered by the model engine's step routines
    saveCalls,        \* targets of the calls to model_engine.save
    hookFirings,      \* firings of the checkpoint-save hook
    engineResult      \* value last returned by LightningTrainer.engine()

vars == <<pc, cuda_available, mps_available, DEFAULT_DEVICE, DEFAULT_DTYPE,
          warnings, dirExists, args, lightning_model, losses, val_losses,
          trainingMode, ctorCalls, trainer, configured, raised, engineLog,
          saveCalls, hookFirings, engineResult>>

configVars == <<cuda_available, mps_available, DEFAULT_DEVICE, DEFAULT_DTYPE, warnings>>
ctorVars == <<dirExists, args, lightning_model, trainingMode, ctorCalls, trainer>>
histVars == <<losses, val_losses, engineLog>>
saveVars == <<saveCalls, hookFirings>>

NoArgs == [set |-> FALSE]
NoModule == [set |-> FALSE]
NoTrainer == [set |-> FALSE]
NotConfigured == [optimizers |-> <<>>, schedulers |-> <<>>]

Init ==
    /\ pc = "boot"
    /\ cuda_available \in BOOLEAN
    /\ mps_available \in BOOLEAN
    /\ DEFAULT_DEVICE = "unset"
    /\ DEFAULT_DTYPE = "unset"
    /\ warnings = 0
    /\ dirExists \in BOOLEAN
    /\ args = NoArgs
    /\ lightning_model = NoModule
    /\ losses = <<>>
    /\ val_losses = <<>>
    /\ trainingMode = FALSE
    /\ ctorCalls = <<>>
    /\ trainer = NoTrainer
    /\ configured = NotConfigured
    /\ raised = "none"
    /\ engineLog = <<>>
    /\ saveCalls = <<>>
    /\ hookFirings = 0
    /\ engineResult = "none"

\* ------------------------------------------ xturing/config/__init__.py
SelectDevice_MpsFirst(cuda, mps) ==
    IF mps THEN "mps"
    ELSE IF cuda THEN "cuda"
    ELSE "cpu"

SelectDevice(cuda, mps) ==
    IF cuda THEN "cuda"
    ELSE IF mps THEN "mps"
    ELSE "cpu"

DefaultDtype(device) == IF device = "cuda" THEN "float16" ELSE "float32"

CpuWarnings(device) == IF device = "cpu" THEN 1 ELSE 0

\* Import of xturing.config: runs once, at process initialisation.
ImportConfig ==
    /\ pc = "boot"
    /\ DEFAULT_DEVICE' = SelectDevice(cuda_available, mps_available)
    /\ DEFAULT_DTYPE' = DefaultDtype(DEFAULT_DEVICE')
    /\ warnings' = warnings + CpuWarnings(DEFAULT_DEVICE')
    /\ pc' = "imported"
    /\ UNCHANGED <<cuda_available, mps_available, ctorVars, histVars, saveVars,
                   configured, raised, engineResult>>

\* ------------------------------------------------ TuringLightningModule
DefaultSavedPath == "saved_model"

\* TuringLightningModule.__init__ as called by LightningTrainer.__init__:
\* saved_path is not passed and keeps its default.
NewModule(engine, optimizer_name, learning_rate) ==
    [set |-> TRUE,
     model_engine |-> engine,
     pytorch_model |-> <<"model", engine>>,
     optimizer_name |-> optimizer_name,
     learning_rate |-> learning_rate,
     saved_path |-> DefaultSavedPath]

\* model.parameters() of a pytorch model
Parameters(model) == <<"parameters", model>>

Optimizer(cls, params, lr) == [cls |-> cls, params |-> params, lr |-> lr]

LinearLR(optimizer) == [kind |-> "LinearLR", optimizer |-> optimizer]

Returned(optimizer) ==
    [raises |-> "none", optimizers |-> <<optimizer>>, schedulers |-> <<LinearLR(optimizer)>>]

Raises(exc) == [raises |-> exc, optimizers |-> <<>>, schedulers |-> <<>>]

\* torch.optim.adam is a module, calling it raises TypeError; with no branch
\* taken the local name optimizer is unbound when LinearLR is built.
configure_optimizers(module) ==
    IF module.optimizer_name = "adamw"
    THEN Returned(Optimizer("AdamW", Parameters(module.pytorch_model), module.learning_rate))
    ELSE IF module.optimizer_name = "adam"
    THEN Raises("TypeError")
    ELSE IF module.optimizer_name = "cpu_adam"
    THEN Returned(Optimizer("DeepSpeedCPUAdam", Parameters(module.pytorch_model),
                            module.learning_rate))
    ELSE Raises("UnboundLocalError")

\* ----------------------------------------------------- LightningTrainer
CheckpointsDir == "saved_model"

\* Lines 152-165: the callbacks assembled before the strategy is chosen.
BaseCallbacks(n, max_training_time_in_secs) ==
    (IF n > 100 THEN <<LearningRateFinder>> ELSE <<>>)
    \o (IF max_training_time_in_secs # None
        THEN <<Timer(timedelta(Value(max_training_time_in_secs)))>>
        ELSE <<>>)

Prepare_Uncaught(dirExisted, engine) ==
    [calls |-> (IF dirExisted THEN <<>> ELSE <<"mkdir">>)
               \o <<"model.train">>
               \o (IF engine = "peft_engine"
                   THEN <<"print_trainable_parameters">>
                   ELSE <<"print_trainable_parameters:AttributeError">>),
     raises |-> IF engine = "peft_engine" THEN "none" ELSE "AttributeError"]

\* Lines 147-150 and 166-171: calls made on the file system and on the model
\* before the Trainer is built.  The exception, if any, is the one that leaves
\* the try statement: AttributeError is caught there.
Prepare(dirExisted, engine) ==
    [calls |-> (IF dirExisted THEN <<>> ELSE <<"mkdir">>)
               \o <<"model.train">>
               \o (IF engine = "peft_engine"
                   THEN <<"print_trainable_parameters">>
                   ELSE <<"print_trainable_parameters:AttributeError">>),
     raises |-> "none"]

Called(name, calls) == \E i \in 1..Len(calls) : calls[i] = name

\* Lines 174-182
CpuTrainer(training_callbacks) ==
    [set |-> TRUE, num_nodes |-> 1, accelerator |-> "cpu", strategy |-> "default",
     precision |-> None, callbacks |-> training_callbacks, enable_checkpointing |-> FALSE]

\* Lines 184-192
GpuTrainer(training_callbacks) ==
    [set |-> TRUE, num_nodes |-> 1, accelerator |-> "gpu", strategy |-> "default",
     precision |-> None, callbacks |-> training_callbacks, enable_checkpointing |-> TRUE]

LoraTrainer_FixedPrecision(lora_type, extra_callbacks) ==
    [set |-> TRUE, num_nodes |-> 1, accelerator |-> "gpu", strategy |-> "auto",
     precision |-> Some(16),
     callbacks |-> <<ModelCheckpoint(CheckpointsDir, TRUE)>> \o extra_callbacks,
     enable_checkpointing |-> TRUE]

\* Lines 194-213: training_callbacks is rebound to a new list, which drops the
\* callbacks assembled before.
LoraTrainer(lora_type, extra_callbacks) ==
    [set |-> TRUE, num_nodes |-> 1, accelerator |-> "gpu", strategy |-> "auto",
     precision |-> Some(lora_type),
     callbacks |-> <<ModelCheckpoint(CheckpointsDir, TRUE)>> \o extra_callbacks,
     enable_checkpointing |-> TRUE]

MakeTrainer_FlagsFirst(device, use_lora, use_deepspeed, lora_type, training_callbacks, extra_callbacks) ==
    IF use_lora \/ use_deepspeed
    THEN LoraTrainer(lora_type, extra_callbacks)
    ELSE IF device = "cpu"
    THEN CpuTrainer(training_callbacks)
    ELSE GpuTrainer(training_callbacks)

\* Lines 173-213: the Trainer built for the selected strategy.
MakeTrainer(device, use_lora, use_deepspeed, lora_type, training_callbacks, extra_callbacks) ==
    IF device = "cpu"
    THEN CpuTrainer(training_callbacks)
    ELSE IF ~use_lora /\ ~use_deepspeed
    THEN GpuTrainer(training_callbacks)
    ELSE LoraTrainer(lora_type, extra_callbacks)

\* LightningTrainer.__init__
Construct ==
    /\ pc = "imported"
    /\ \E engine \in Engines, n \in DatasetLens, t \in TrainingTimes,
          use_lora \in BOOLEAN, use_deepspeed \in BOOLEAN, lora_type \in LoraTypes,
          extra \in ExtraCallbackLists, opt \in OptimizerNames, lr \in LearningRates :
        LET prep == Prepare(dirExists, engine)
        IN  /\ args' = [set |-> TRUE, model_engine |-> engine, train_len |-> n,
                        max_training_time_in_secs |-> t, use_lora |-> use_lora,
                        use_deepspeed |-> use_deepspeed, lora_type |-> lora_type,
                        extra_callbacks |-> extra, optimizer_name |-> opt,
                        learning_rate |-> lr]
            /\ lightning_model' = NewModule(engine, opt, lr)
            /\ dirExists' = (dirExists \/ Called("mkdir", prep.calls))
            /\ trainingMode' = (trainingMode \/ Called("model.train", prep.calls))
            /\ IF prep.raises = "none"
               THEN /\ ctorCalls' = prep.calls \o <<"Trainer">>
                    /\ trainer' = MakeTrainer(DEFAULT_DEVICE, use_lora, use_deepspeed,
                                              lora_type, BaseCallbacks(n, t), extra)
                    /\ raised' = raised
                    /\ pc' = "ready"
               ELSE /\ ctorCalls' = prep.calls
                    /\ trainer' = trainer
                    /\ raised' = prep.raises
                    /\ pc' = "raised"
    /\ losses' = <<>>
    /\ val_losses' = <<>>
    /\ UNCHANGED <<configVars, configured, engineLog, saveVars, engineResult>>

\* LightningTrainer.fit: control is handed to the driver.
FitStart ==
    /\ pc \in {"ready", "done"}
    /\ pc' = "configure"
    /\ UNCHANGED <<configVars, ctorVars, histVars, saveVars, configured, raised,
                   engineResult>>

\* The driver asks the module for its optimizer before the first step.
ConfigureOptimizers ==
    /\ pc = "configure"
    /\ LET r == configure_optimizers(lightning_model)
       IN  IF r.raises = "none"
           THEN /\ configured' = [optimizers |-> r.optimizers, schedulers |-> r.schedulers]
                /\ raised' = raised
                /\ pc' = "loop"
           ELSE /\ configured' = configured
                /\ raised' = r.raises
                /\ pc' = "raised"
    /\ UNCHANGED <<configVars, ctorVars, histVars, saveVars, engineResult>>

RecordLoss_Overwrite(history, loss) == <<loss>>

\* self.losses.append(loss.item()) and self.val_losses.append(loss.item())
RecordLoss(history, loss) == Append(history, loss)

EngineCall(op, ok, loss) == [op |-> op, ok |-> ok, loss |-> loss]

\* What a step routine of the engine can do: return a loss, or raise.
StepOutcomes == {[ok |-> TRUE, loss |-> l] : l \in LossValues} \cup {[ok |-> FALSE, loss |-> 0]}

\* TuringLightningModule.training_step; the engine returns a loss or raises.
TrainingStep ==
    /\ pc = "loop"
    /\ Len(engineLog) < MaxSteps
    /\ \E out \in StepOutcomes :
        /\ engineLog' = Append(engineLog, EngineCall("training_step", out.ok, out.loss))
        /\ IF out.ok
           THEN /\ losses' = RecordLoss(losses, out.loss)
                /\ UNCHANGED <<pc, raised>>
           ELSE /\ losses' = losses
                /\ raised' = "EngineError"
                /\ pc' = "raised"
    /\ UNCHANGED <<configVars, ctorVars, val_losses, saveVars, configured, engineResult>>

\* TuringLightningModule.validation_step
ValidationStep ==
    /\ pc = "loop"
    /\ Len(engineLog) < MaxSteps
    /\ \E out \in StepOutcomes :
        /\ engineLog' = Append(engineLog, EngineCall("validation_step", out.ok, out.loss))
        /\ IF out.ok
           THEN /\ val_losses' = RecordLoss(val_losses, out.loss)
                /\ UNCHANGED <<pc, raised>>
           ELSE /\ val_losses' = val_losses
                /\ raised' = "EngineError"
                /\ pc' = "raised"
    /\ UNCHANGED <<configVars, ctorVars, losses, saveVars, configured, engineResult>>

SaveTargets_Twice(module) == <<module.saved_path, module.saved_path>>

\* The engine.save calls made by one firing of on_save_checkpoint.
SaveTargets(module) == <<module.saved_path>>

\* TuringLightningModule.on_save_checkpoint; the driver saves checkpoints only
\* when checkpointing is enabled.
OnSaveCheckpoint ==
    /\ pc = "loop"
    /\ trainer.enable_checkpointing
    /\ hookFirings < MaxSaves
    /\ hookFirings' = hookFirings + 1
    /\ saveCalls' = saveCalls \o SaveTargets(lightning_model)
    /\ UNCHANGED <<pc, configVars, ctorVars, histVars, configured, raised, engineResult>>

\* trainer.checkpoint_callback as read by fit()
checkpoint_callback(t) == IF t.enable_checkpointing THEN "ModelCheckpoint" ELSE "None"

\* LightningTrainer.fit: the driver returns; best_model_path is read and dropped.
FitEnd ==
    /\ pc = "loop"
    /\ pc' = "done"
    /\ UNCHANGED <<configVars, ctorVars, histVars, saveVars, configured, raised,
                   engineResult>>

EngineOf(module) == module.model_engine

\* LightningTrainer.engine
Engine ==
    /\ pc \in {"ready", "done", "raised"}
    /\ engineResult' = EngineOf(lightning_model)
    /\ UNCHANGED <<pc, configVars, ctorVars, histVars, saveVars, configured, raised>>

Next ==
    \/ ImportConfig
    \/ Construct
    \/ FitStart
    \/ ConfigureOptimizers
    \/ TrainingStep
    \/ ValidationStep
    \/ OnSaveCheckpoint
    \/ FitEnd
    \/ Engine

Spec == Init /\ [][Next]_vars

TypeOK == pc \in {"boot", "imported", "ready", "configure", "loop", "done", "raised"}

\* ---------------------------------------------------------------- claims
HasKind(cbs, k) == \E i \in 1..Len(cbs) : cbs[i].kind = k
KindCount(cbs, k) == Cardinality({i \in 1..Len(cbs) : cbs[i].kind = k})
SupportedOptimizers == {"adamw", "adam", "cpu_adam"}
Constructed == pc \notin {"boot", "imported"}
ConfigureCalled == pc \in {"loop", "done", "raised"}
Strategy3 == args.set /\ DEFAULT_DEVICE # "cpu" /\ (args.use_lora \/ args.use_deepspeed)

\* C1: whatever the strategy, the callback list given to the Trainer holds a
\* learning-rate finder exactly when the training dataset has more than 100
\* examples.
C1_FinderIffLargeDataset ==
    trainer.set =>
        (HasKind(trainer.callbacks, "LearningRateFinder") <=> args.train_len > 100)

\* C2: whatever the strategy, the callback list given to the Trainer holds no
\* timer when max_training_time_in_secs is None, and exactly one timer, lasting
\* that many seconds, when it is a positive integer.
C2_TimerIffDurationGiven ==
    trainer.set =>
        IF args.max_training_time_in_secs = None
        THEN KindCount(trainer.callbacks, "Timer") = 0
        ELSE /\ KindCount(trainer.callbacks, "Timer") = 1
             /\ \A i \in 1..Len(trainer.callbacks) :
                    trainer.callbacks[i].kind = "Timer" =>
                        total_seconds(trainer.callbacks[i])
                            = Value(args.max_training_time_in_secs)

\* C3: for each of the names adamw, adam and cpu_adam, configure_optimizers
\* returns without error one optimizer over the wrapped model's parameters
\* with the configured learning rate, and one linear schedule bound to it.
C3_SupportedOptimizerConfigures ==
    (lightning_model.set /\ ConfigureCalled
        /\ lightning_model.optimizer_name \in SupportedOptimizers) =>
        /\ raised \notin {"TypeError", "UnboundLocalError"}
        /\ Len(configured.optimizers) = 1
        /\ Len(configured.schedulers) = 1
        /\ configured.optimizers[1].params = Parameters(lightning_model.pytorch_model)
        /\ configured.optimizers[1].lr = args.learning_rate
        /\ configured.schedulers[1] = LinearLR(configured.optimizers[1])

\* C4: for every other optimizer name the run ends with an explicit
\* unknown-optimizer configuration error, raised before any training step.
C4_UnknownOptimizerExplicitError ==
    (lightning_model.set /\ ConfigureCalled
        /\ lightning_model.optimizer_name \notin SupportedOptimizers) =>
        /\ raised = "UnknownOptimizerError"
        /\ engineLog = <<>>

NoEngineFailure == \A i \in 1..Len(engineLog) : engineLog[i].ok

C7_SaveOnlyFromHook ==
    /\ [](/\ Len(saveCalls) = hookFirings
          /\ \A i \in 1..Len(saveCalls) : saveCalls[i] = "saved_model"
          /\ Constructed => dirExists)
    /\ [][saveCalls' # saveCalls =>
            /\ hookFirings' = hookFirings + 1
            /\ saveCalls' = Append(saveCalls, "saved_model")]_vars

C7_Witness ==
    /\ hookFirings > 0 /\ Len(saveCalls) = hookFirings
    /\ ~Called("mkdir", ctorCalls) /\ dirExists

BaseKinds == {"LearningRateFinder", "Timer"}

C8_StrategyOf ==
    trainer.set =>
        IF DEFAULT_DEVICE = "cpu"
        THEN /\ trainer.accelerator = "cpu"
             /\ ~trainer.enable_checkpointing
             /\ \A i \in 1..Len(trainer.callbacks) : trainer.callbacks[i].kind \in BaseKinds
        ELSE IF ~args.use_lora /\ ~args.use_deepspeed
        THEN /\ trainer.accelerator = "gpu"
             /\ trainer.enable_checkpointing
             /\ \A i \in 1..Len(trainer.callbacks) : trainer.callbacks[i].kind \in BaseKinds
        ELSE /\ trainer.accelerator = "gpu"
             /\ trainer.enable_checkpointing
             /\ trainer.precision = Some(args.lora_type)
             /\ Len(trainer.callbacks) = 1 + Len(args.extra_callbacks)
             /\ trainer.callbacks[1].kind = "ModelCheckpoint"
             /\ trainer.callbacks[1].dirpath = "saved_model"
             /\ trainer.callbacks[1].save_on_train_epoch_end
             /\ SubSeq(trainer.callbacks, 2, Len(trainer.callbacks)) = args.extra_callbacks

RECURSIVE CompletedLosses(_, _)
CompletedLosses(log, op) ==
    IF log = <<>> THEN <<>>
    ELSE LET rest == CompletedLosses(Tail(log), op)
         IN  IF Head(log).op = op /\ Head(log).ok
             THEN <<Head(log).loss>> \o rest
             ELSE rest

IsPrefix(a, b) == Len(a) <= Len(b) /\ SubSeq(b, 1, Len(a)) = a

\* C9: the training history is the losses of the completed training steps in
\* call order and the validation history those of the completed validation
\* steps; a completed step adds one value to its own history only; a step in
\* which the engine raises ends the run and changes neither history;
\* histories only grow at the end.
C9_LossHistories ==
    /\ [](/\ losses = CompletedLosses(engineLog, "training_step")
          /\ val_losses = CompletedLosses(engineLog, "validation_step")
          /\ (~NoEngineFailure) => (pc = "raised" /\ raised = "EngineError"))
    /\ [][/\ IsPrefix(losses, losses') /\ IsPrefix(val_losses, val_losses')
          /\ Len(losses') + Len(val_losses') <= Len(losses) + Len(val_losses) + 1]_vars

C9_Witness ==
    /\ Len(engineLog) = 2 /\ NoEngineFailure
    /\ engineLog[1].op = "validation_step" /\ engineLog[2].op = "training_step"
    /\ Len(losses) = 1 /\ Len(val_losses) = 1 /\ losses[1] # val_losses[1]

CallIndex(name) == CHOOSE i \in 1..Len(ctorCalls) : ctorCalls[i] = name
SummaryAttempts == {"print_trainable_parameters", "print_trainable_parameters:AttributeError"}

\* C10: construction switches the model to training mode before it attempts
\* the trainable-parameter summary and before it creates the Trainer; with a
\* model that has no print_trainable_parameters construction still completes,
\* in every strategy, with the model in training mode and a Trainer created;
\* the model is in training mode whenever fit() can be started.
C10_TrainModeBeforeSummary ==
    Constructed =>
        /\ trainingMode
        /\ trainer.set
        /\ raised # "AttributeError"
        /\ Called("model.train", ctorCalls) /\ Called("Trainer", ctorCalls)
        /\ \E s \in SummaryAttempts : Called(s, ctorCalls)
        /\ \A i \in 1..Len(ctorCalls) :
                ctorCalls[i] \in SummaryAttempts \cup {"Trainer"} =>
                    CallIndex("model.train") < i
        /\ \A i \in 1..Len(ctorCalls) :
                ctorCalls[i] \in SummaryAttempts => i < CallIndex("Trainer")

C10_Witness ==
    /\ pc = "ready" /\ args.model_engine = "plain_engine"
    /\ Called("print_trainable_parameters:AttributeError", ctorCalls)
    /\ trainingMode /\ trainer.set /\ Strategy3

====
